---- MODULE Spec2Model ----
(***************************************************************************)
(* Model of fuzzy_rename_rs (src/src/app.rs): the matching engine          *)
(* (SourceName, FuzzySearch), the rename resolver (MainApp::rename), the   *)
(* plan builder (MainApp::iter_renames) and the UI handlers of             *)
(* MainApp::update that change the engine's state.                         *)
(*                                                                         *)
(* File names are sequences of one-character strings.  Scores (f32 in the  *)
(* source) are exact rationals written as integers over the common         *)
(* denominator Scale: 1.0 is Scale, the sentinel -1.0 is -Scale.           *)
(* Choice indices are 0-based as in the source; choice_names[c + 1] is the *)
(* element the source calls choice_names[c].                               *)
(***************************************************************************)
EXTENDS Integers, Sequences, FiniteSets, TLC

\* ------------------------------------------------------------------ bounds

\* Longest file name drawn for the resolver's inputs.
MaxNameLen == 3
\* Most source records of the application model.
MaxSources == 2
\* Most choices of the application model.
MaxChoices == 2
\* Most source records and choices of the plan model.
MaxPlanSources == 2
MaxPlanChoices == 2
\* Most rows and choices of the table model.
MaxRows == 3
MaxRowChoices == 1
\* Most choices of the top-K model (exceeds CHOICE_PREVIEW_COUNT).
MaxTopKChoices == 11

\* The most pairs of a plan in the model of the copy and rename loops.
MaxCopyPairs == 2

\* ------------------------------------------------------- program constants

CHOICE_PREVIEW_COUNT == 10

\* ---------------------------------------------------------------- helpers

Min2(x, y) == IF x <= y THEN x ELSE y

Max2(x, y) == IF x >= y THEN x ELSE y

RECURSIVE Fact(_)
Fact(n) == IF n <= 1 THEN 1 ELSE n * Fact(n - 1)

\* All sequences over S of length at most n.
SeqsUpTo(S, n) == UNION {[1..k -> S] : k \in 0..n}

\* What an import dialog returns: no file, one file or two files of S.
Batches(S) == {<<>>} \cup {<<x>> : x \in S} \cup {<<x, y>> : x \in S, y \in S}

Alphabet == {"a", "b", "."}

\* The names of the files the application model imports.
NameAB_X == <<"a", "b", ".", "x">>
NameAB_Y == <<"a", "b", ".", "y">>
NameAC == <<"a", "c">>
NameB_X == <<"b", ".", "x">>
NameC == <<"c">>

\* The names of the specification's resolver examples.
NamePhotoPng == <<"p", "h", "o", "t", "o", ".", "p", "n", "g">>
NameCoverJpg == <<"c", "o", "v", "e", "r", ".", "j", "p", "g">>
NameA == <<"a">>
NameBTxt == <<"b", ".", "t", "x", "t">>

\* Base names of the model are at most this long; every score of the model
\* is a multiple of 1/Scale (Jaro-Winkler: thirds of ratios x/len, in tenths).
LongestBase == Max2(MaxNameLen, 5)

Scale == 30 * Fact(LongestBase)

\* ------------------------------------------------------- remove_extension

\* s.rfind('.'): the 1-based position of the last '.', 0 when there is none.
rfind_dot(s) ==
    LET dots == {i \in 1..Len(s) : s[i] = "."}
    IN  IF dots = {} THEN 0 ELSE CHOOSE i \in dots : \A j \in dots : j <= i

\* A plausible slip: find instead of rfind (the first '.').
remove_extension_first_dot(s) ==
    LET dots == {i \in 1..Len(s) : s[i] = "."}
    IN  IF dots = {} THEN s
        ELSE SubSeq(s, 1, (CHOOSE i \in dots : \A j \in dots : i <= j) - 1)

\* &s[0..s.rfind('.').unwrap_or(s.len())]
remove_extension(s) ==
    IF rfind_dot(s) = 0 THEN s ELSE SubSeq(s, 1, rfind_dot(s) - 1)

\* original.rsplit_once('.').map_or("", |(_, s)| s)
extension_of(s) ==
    IF rfind_dot(s) = 0 THEN <<>> ELSE SubSeq(s, rfind_dot(s) + 1, Len(s))

\* ------------------------------------------------------- SearchAlgorithm

SearchAlgorithm == {"Jaro", "JaroWinkler", "Levenshtein", "DamerauLevenshtein"}

\* strsim::levenshtein: the edit distance (insert, delete, substitute).
RECURSIVE levenshtein(_, _)
levenshtein(a, b) ==
    IF a = <<>> THEN Len(b)
    ELSE IF b = <<>> THEN Len(a)
    ELSE Min2(Min2(levenshtein(Tail(a), b) + 1, levenshtein(a, Tail(b)) + 1),
              levenshtein(Tail(a), Tail(b)) + (IF Head(a) = Head(b) THEN 0 ELSE 1))

\* strsim::damerau_levenshtein: the unrestricted distance, with transposition
\* of adjacent characters; da(i, j) is the distance of the prefixes a[1..i],
\* b[1..j].  k is the last row before i whose character is b[j], l the last
\* column before j whose character is a[i].
RECURSIVE da(_, _, _, _)
da(a, b, i, j) ==
    IF i = 0 THEN j
    ELSE IF j = 0 THEN i
    ELSE LET ks == {k \in 1..(i - 1) : a[k] = b[j]}
             ls == {l \in 1..(j - 1) : b[l] = a[i]}
             sub == da(a, b, i - 1, j - 1) + (IF a[i] = b[j] THEN 0 ELSE 1)
             ins == da(a, b, i, j - 1) + 1
             del == da(a, b, i - 1, j) + 1
             best == Min2(sub, Min2(ins, del))
         IN  IF ks = {} \/ ls = {} THEN best
             ELSE LET k == CHOOSE x \in ks : \A y \in ks : y <= x
                      l == CHOOSE x \in ls : \A y \in ls : y <= x
                  IN  Min2(best, da(a, b, k - 1, l - 1) + (i - k - 1) + 1 + (j - l - 1))

damerau_levenshtein(a, b) == da(a, b, Len(a), Len(b))

\* 1.0 - distance / max(len): strsim::normalized_levenshtein and
\* strsim::normalized_damerau_levenshtein; 1.0 for two empty strings.
normalized(dist, a, b) ==
    IF a = <<>> /\ b = <<>> THEN Scale
    ELSE Scale - (Scale * dist) \div Max2(Len(a), Len(b))

\* strsim::generic_jaro's first loop over a, at 0-based position i: st holds
\* the flagged positions of a and of b.  The character a[i] is matched with
\* the first unflagged equal character of b within the search range.
RECURSIVE jaro_scan(_, _, _, _, _)
jaro_scan(a, b, range, i, st) ==
    IF i = Len(a) THEN st
    ELSE LET min_bound == IF i > range THEN i - range ELSE 0
             max_bound == Min2(Len(b), i + range + 1)
             js == {j \in 0..(Len(b) - 1) :
                        /\ min_bound <= j
                        /\ j < max_bound
                        /\ a[i + 1] = b[j + 1]
                        /\ j \notin st.b_flags}
         IN  IF js = {} THEN jaro_scan(a, b, range, i + 1, st)
             ELSE LET j == CHOOSE x \in js : \A y \in js : x <= y
                  IN  jaro_scan(a, b, range, i + 1,
                          [a_flags |-> st.a_flags \cup {i},
                           b_flags |-> st.b_flags \cup {j}])

\* The characters of s at the flagged 0-based positions, in their order.
RECURSIVE flagged(_, _, _)
flagged(s, flags, i) ==
    IF i = Len(s) THEN <<>>
    ELSE (IF i \in flags THEN <<s[i + 1]>> ELSE <<>>) \o flagged(s, flags, i + 1)

\* strsim::generic_jaro's second loop: the flagged characters of a and of b
\* are paired in order, and the pairs of unequal characters counted.
jaro_transpositions(a, b, st) ==
    LET a_matched == flagged(a, st.a_flags, 0)
        b_matched == flagged(b, st.b_flags, 0)
    IN  Cardinality({k \in 1..Len(a_matched) : a_matched[k] # b_matched[k]})

\* strsim::jaro: (1/3) * (m/|a| + m/|b| + (m - t)/m), with t half the count
\* of the second loop and a search range of max(|a|, |b|) / 2 - 1, or 0.
jaro(a, b) ==
    IF Len(a) = 0 /\ Len(b) = 0 THEN Scale
    ELSE IF Len(a) = 0 \/ Len(b) = 0 THEN 0
    ELSE LET range == Max2((Max2(Len(a), Len(b)) \div 2) - 1, 0)
             st == jaro_scan(a, b, range, 0, [a_flags |-> {}, b_flags |-> {}])
             m == Cardinality(st.a_flags)
             t == jaro_transpositions(a, b, st) \div 2
             third == Scale \div 3
         IN  IF m = 0 THEN 0
             ELSE (third * m) \div Len(a) + (third * m) \div Len(b)
                  + (third * (m - t)) \div m

\* The length of the common prefix of a and b.
RECURSIVE prefix_length(_, _)
prefix_length(a, b) ==
    IF a = <<>> \/ b = <<>> \/ Head(a) # Head(b) THEN 0
    ELSE 1 + prefix_length(Tail(a), Tail(b))

\* strsim::jaro_winkler: a similarity above 0.7 is raised by
\* 0.1 * prefix * (1 - jaro), the common prefix counting for 4 characters at
\* most; a similarity of 0.7 or less is jaro's.
jaro_winkler(a, b) ==
    IF jaro(a, b) > (7 * Scale) \div 10
    THEN jaro(a, b) + (Min2(prefix_length(a, b), 4) * (Scale - jaro(a, b))) \div 10
    ELSE jaro(a, b)

\* SearchAlgorithm::compare
compare(algorithm, a, b) ==
    CASE algorithm = "Jaro" -> jaro(a, b)
      [] algorithm = "JaroWinkler" -> jaro_winkler(a, b)
      [] algorithm = "Levenshtein" -> normalized(levenshtein(a, b), a, b)
      [] algorithm = "DamerauLevenshtein" -> normalized(damerau_levenshtein(a, b), a, b)

\* --------------------------------------------------------------- Option<T>

\* Option<T> is a sequence of at most one element: None is <<>>, Some(x) <<x>>.
None == <<>>

Some(x) == <<x>>

\* ----------------------------------------------------------------- FilePath

\* A PathBuf: the directory and the final component (<<>> when the path has
\* none, as for a path ending in "..").
PathBuf(dir, file) == [dir |-> dir, file |-> file]

\* FilePath::try_from: Err (None) when the path has no file name.
FilePath_try_from(path) ==
    IF path.file = <<>> THEN None
    ELSE Some([name |-> path.file, path |-> path])

\* ------------------------------------------------------------- SourceName

\* SourceName::try_from: the record of a new source, with no candidates and
\* no manual choice.
SourceName_try_from(path) ==
    IF FilePath_try_from(path) = None THEN None
    ELSE Some([file |-> FilePath_try_from(path)[1],
               choice_map |-> <<>>,
               manual_choice |-> None])

\* SourceName::reset_choice
reset_choice(source) == [source EXCEPT !.manual_choice = None]

\* A plausible slip: the index is stored counted from one.
set_choice_one_based(source, index) ==
    [source EXCEPT !.manual_choice =
        IF index = None THEN Some(None) ELSE Some(Some(index[1] + 1))]

\* SourceName::set_choice
set_choice(source, index) == [source EXCEPT !.manual_choice = Some(index)]

\* A plausible slip: a manual "no match" falls back to the first candidate.
current_choice_fallback(source) ==
    IF source.manual_choice # None /\ source.manual_choice[1] # None
    THEN source.manual_choice[1]
    ELSE IF source.choice_map = <<>> THEN None
    ELSE Some(source.choice_map[1][1])

\* SourceName::current_choice
current_choice(source) ==
    IF source.manual_choice # None THEN source.manual_choice[1]
    ELSE IF source.choice_map = <<>> THEN None
    ELSE Some(source.choice_map[1][1])

\* A plausible slip: the score of a manual choice is looked up among the
\* candidates instead of being absent.
current_score_lookup(source) ==
    IF source.manual_choice = None
    THEN Some(IF source.choice_map = <<>> THEN 0 ELSE source.choice_map[1][2])
    ELSE IF source.manual_choice[1] # None
            /\ \E k \in 1..Len(source.choice_map) :
                   source.choice_map[k][1] = source.manual_choice[1][1]
    THEN Some(source.choice_map[CHOOSE k \in 1..Len(source.choice_map) :
                   source.choice_map[k][1] = source.manual_choice[1][1]][2])
    ELSE None

\* SourceName::current_score
current_score(source) ==
    IF source.manual_choice = None
    THEN Some(IF source.choice_map = <<>> THEN 0 ELSE source.choice_map[1][2])
    ELSE None

\* The scan of the slots in update_choices (lines 105-113) from slot i on:
\* the lowest score below `score`, and the first slot holding it.
RECURSIVE scan_slots(_, _, _, _, _)
scan_slots(scores, score, i, lowest, replace) ==
    IF i = CHOICE_PREVIEW_COUNT THEN [lowest |-> lowest, replace |-> replace]
    ELSE IF scores[i][2] < score /\ scores[i][2] < lowest
    THEN scan_slots(scores, score, i + 1, scores[i][2], i)
    ELSE scan_slots(scores, score, i + 1, lowest, replace)

\* A plausible slip: the first slot below `score` instead of the lowest one.
place_choice_first_lower(scores, index, score) ==
    LET lower == {i \in 0..(CHOICE_PREVIEW_COUNT - 1) : scores[i][2] < score}
    IN  IF lower = {} THEN scores
        ELSE [scores EXCEPT ![CHOOSE i \in lower : \A j \in lower : i <= j] =
                  <<index, score>>]

\* One iteration of the loop over the choices (lines 103-116).
place_choice(scores, index, score) ==
    LET found == scan_slots(scores, score, 0, 2 * Scale, 0)
    IN  IF found.lowest # 2 * Scale
        THEN [scores EXCEPT ![found.replace] = <<index, score>>]
        ELSE scores

\* The loop over the choices (lines 102-117), from the 0-based index on.
RECURSIVE fill_scores(_, _, _, _, _)
fill_scores(name, choice_names, algorithm, index, scores) ==
    IF index = Len(choice_names) THEN scores
    ELSE fill_scores(name, choice_names, algorithm, index + 1,
             place_choice(scores, index,
                 compare(algorithm, name,
                         remove_extension(choice_names[index + 1].name))))

\* scores.iter().position(|(_, s)| -1.0 == *s).unwrap_or(10)
sentinel_position(scores) ==
    LET empty == {i \in 0..(CHOICE_PREVIEW_COUNT - 1) : scores[i][2] = -Scale}
    IN  IF empty = {} THEN 10 ELSE CHOOSE i \in empty : \A j \in empty : i <= j

\* A plausible slip: a sort that is not stable, x going before the entries of
\* an equal score.
insert_desc_before_equal(sorted, x) ==
    LET lower == {k \in 1..Len(sorted) : sorted[k][2] <= x[2]}
        at == IF lower = {} THEN Len(sorted) + 1
              ELSE CHOOSE k \in lower : \A j \in lower : k <= j
    IN  SubSeq(sorted, 1, at - 1) \o <<x>> \o SubSeq(sorted, at, Len(sorted))

\* A stable insertion of x into a sequence sorted by descending score: x goes
\* before the first entry of a smaller score.
insert_desc(sorted, x) ==
    LET smaller == {k \in 1..Len(sorted) : sorted[k][2] < x[2]}
        at == IF smaller = {} THEN Len(sorted) + 1
              ELSE CHOOSE k \in smaller : \A j \in smaller : k <= j
    IN  SubSeq(sorted, 1, at - 1) \o <<x>> \o SubSeq(sorted, at, Len(sorted))

\* A plausible slip: the sort is left out.
sort_desc_skipped(s) == s

\* choice_map.sort_by(|a, b| b.1.total_cmp(&a.1)): a stable sort, descending.
RECURSIVE sort_desc(_)
sort_desc(s) ==
    IF s = <<>> THEN <<>>
    ELSE insert_desc(sort_desc(SubSeq(s, 1, Len(s) - 1)), s[Len(s)])

\* SourceName::update_choices
update_choices(source, choice_names, algorithm) ==
    LET name == remove_extension(source.file.name)
        scores == fill_scores(name, choice_names, algorithm, 0,
                      [i \in 0..(CHOICE_PREVIEW_COUNT - 1) |-> <<0, -Scale>>])
    IN  [source EXCEPT !.choice_map =
            sort_desc([k \in 1..sentinel_position(scores) |-> scores[k - 1]])]

\* ------------------------------------------------------------- FuzzySearch

\* The characters of the model's names in ascending byte order.
CharOrder == <<".", "a", "b", "c", "e", "g", "h", "j", "n", "o", "p", "r", "t",
               "v", "x", "y">>

char_rank(c) == CHOOSE i \in 1..Len(CharOrder) : CharOrder[i] = c

\* String's Ord: a <= b, byte by byte.
RECURSIVE name_le(_, _)
name_le(a, b) ==
    IF a = <<>> THEN TRUE
    ELSE IF b = <<>> THEN FALSE
    ELSE IF Head(a) # Head(b) THEN char_rank(Head(a)) < char_rank(Head(b))
    ELSE name_le(Tail(a), Tail(b))

\* source_names.sort_unstable_by_key(|v| v.file.name.clone()): the possible
\* outcomes, each as the sequence of the old positions in their new order;
\* records of equal names may end in any order.
sort_unstable_by_name(source_names) ==
    {p \in [1..Len(source_names) -> 1..Len(source_names)] :
        /\ \A i, j \in 1..Len(source_names) : p[i] = p[j] => i = j
        /\ \A i \in 1..(Len(source_names) - 1) :
               name_le(source_names[p[i]].file.name, source_names[p[i + 1]].file.name)}

\* update_choices for every record (lines 163-165).
RECURSIVE update_each(_, _, _)
update_each(source_names, choice_names, algorithm) ==
    IF source_names = <<>> THEN <<>>
    ELSE <<update_choices(Head(source_names), choice_names, algorithm)>>
         \o update_each(Tail(source_names), choice_names, algorithm)

\* A plausible slip: the sort is followed by a dedup_by_key on the name,
\* which drops a record whose name is that of the record before it.
update_all_dedup(source_names, choice_names, algorithm) ==
    LET updated == update_each(source_names, choice_names, algorithm)
    IN  {LET sorted == [i \in 1..Len(source_names) |-> updated[p[i]]]
             kept == {i \in 1..Len(sorted) :
                         i = 1 \/ sorted[i].file.name # sorted[i - 1].file.name}
         IN  [k \in 1..Cardinality(kept) |->
                 sorted[CHOOSE i \in kept : Cardinality({j \in kept : j <= i}) = k]] :
            p \in sort_unstable_by_name(source_names)}

\* A plausible slip: the records are sorted and their candidates left as
\* they were.
update_all_sort_only(source_names, choice_names, algorithm) ==
    {[i \in 1..Len(source_names) |-> source_names[p[i]]] :
        p \in sort_unstable_by_name(source_names)}

\* FuzzySearch::update_all: the possible outcomes.  update_choices reads
\* nothing but its own record, so the records are recomputed once and then
\* arranged as the sort arranges them.
update_all(source_names, choice_names, algorithm) ==
    LET updated == update_each(source_names, choice_names, algorithm)
    IN  {[i \in 1..Len(source_names) |-> updated[p[i]]] :
            p \in sort_unstable_by_name(source_names)}

\* FuzzySearch::add_source
add_source(source_names, choice_names, algorithm, path) ==
    IF SourceName_try_from(path) = None THEN source_names
    ELSE Append(source_names,
             update_choices(SourceName_try_from(path)[1], choice_names, algorithm))

\* FuzzySearch::add_choice
add_choice(choice_names, path) ==
    IF FilePath_try_from(path) = None THEN choice_names
    ELSE Append(choice_names, FilePath_try_from(path)[1])

\* A plausible slip: swap_remove (as the commented-out remove_choice does),
\* which moves the last record into the gap.
remove_source_swap(source_names, index) ==
    IF index + 1 = Len(source_names) THEN SubSeq(source_names, 1, index)
    ELSE SubSeq(source_names, 1, index) \o <<source_names[Len(source_names)]>>
         \o SubSeq(source_names, index + 2, Len(source_names) - 1)

\* FuzzySearch::remove_source, for index < len (Vec::remove panics otherwise).
remove_source(source_names, index) ==
    SubSeq(source_names, 1, index) \o SubSeq(source_names, index + 2, Len(source_names))

\* The add_source loop of the import handlers (lines 339-344, 364-366).
RECURSIVE add_sources(_, _, _, _)
add_sources(source_names, choice_names, algorithm, files) ==
    IF files = <<>> THEN source_names
    ELSE add_sources(add_source(source_names, choice_names, algorithm, Head(files)),
                     choice_names, algorithm, Tail(files))

\* The add_choice loop of the import handlers (lines 401-406, 430-432).
RECURSIVE add_choices(_, _)
add_choices(choice_names, files) ==
    IF files = <<>> THEN choice_names
    ELSE add_choices(add_choice(choice_names, Head(files)), Tail(files))

\* ------------------------------------------------------------------ state

VARIABLES
    source_names,          \* FuzzySearch::source_names
    choice_names,          \* FuzzySearch::choice_names
    algorithm,             \* FuzzySearch::algorithm
    keep_extension,        \* MainApp::keep_extension
    side_to_copy,          \* MainApp::side_to_copy
    copy_failed_sources,   \* MainApp::copy_failed_sources
    threshold,             \* MainApp::threshold
    renames,               \* the plan of the last copy or rename handler
    task,                  \* the ListTask of the frame being rendered
    pending_rows,          \* the rows the frame has yet to render
    crashed,               \* the process has panicked
    disk                   \* the files there are in the folders of the imports

vars == <<source_names, choice_names, algorithm, keep_extension, side_to_copy,
          copy_failed_sources, threshold, renames, task, pending_rows, crashed,
          disk>>

SideToUse == {"Choices", "Sources"}

\* The values of the similarity slider the model tries: 0.0, 0.7 and 1.0.
Thresholds == {0, (7 * Scale) \div 10, Scale}

ListTask_None == [tag |-> "None"]

RemoveRow(index) == [tag |-> "RemoveRow", row |-> index]

\* ------------------------------------------------------------------ files

SourcePaths == {PathBuf("s", NameAB_X), PathBuf("s", NameB_X)}

ChoicePaths == {PathBuf("c", NameAB_Y), PathBuf("c", NameAC)}

\* A path with no file name, which the import skips.
BadPath == PathBuf("s", <<>>)

\* The folders pick_folder can give: that of the sources, that of the
\* choices, and one that is neither.
Folders == {"s", "c", "o"}

\* -------------------------------------------------------- MainApp::rename

\* A plausible slip: no '.' when the extension is empty.
rename_no_trailing_dot(source, choice) ==
    LET original == IF side_to_copy = "Choices" THEN choice ELSE source
        reference == IF side_to_copy = "Choices" THEN source ELSE choice
        body == IF keep_extension THEN reference ELSE remove_extension(reference)
    IN  IF extension_of(original) = <<>> THEN body
        ELSE body \o <<".">> \o extension_of(original)

\* MainApp::rename
rename(source, choice) ==
    LET original == IF side_to_copy = "Choices" THEN choice ELSE source
        reference == IF side_to_copy = "Choices" THEN source ELSE choice
        extension == extension_of(original)
        body == IF keep_extension THEN reference ELSE remove_extension(reference)
    IN  body \o <<".">> \o extension

\* The names MainApp::rename can give for a source and a choice of these
\* names, under any options.
names_of_rename(source, choice) ==
    {body \o <<".">> \o extension_of(choice) :
        body \in {source, remove_extension(source)}}
    \cup {body \o <<".">> \o extension_of(source) :
        body \in {choice, remove_extension(choice)}}

\* The files the copy and rename handlers can name when the sources and the
\* choices are files of these paths: the files themselves and, in every
\* folder, a file of every source's name and of every name MainApp::rename
\* can give.
files_in_reach(sources, choices) ==
    sources \cup choices
    \cup {PathBuf(folder, source.file) : folder \in Folders, source \in sources}
    \cup UNION {{PathBuf(folder, name) :
                    folder \in Folders,
                    name \in names_of_rename(source.file, choice.file)} :
                source \in sources, choice \in choices}

\* -------------------------------------------------- MainApp::iter_renames

\* choice_names.get(c)
choice_get(c) ==
    IF c < Len(choice_names) THEN Some(choice_names[c + 1]) ELSE None

\* A plausible slip: choice_names[c], which panics on an index past the
\* collection.
choice_index_panics(c) == c >= Len(choice_names)

\* Whether the lookup of the choice of index c panics: Vec::get checks the
\* index against the length and gives None past it.
choice_get_panics(c) == FALSE

\* A plausible slip: the threshold is applied to manual choices too, with the
\* score the candidates give the chosen index.
rename_entry_threshold_always(source, include_failed) ==
    LET choice == IF current_choice(source) = None THEN None
                  ELSE choice_get(current_choice(source)[1])
        below == /\ current_score_lookup(source) # None
                 /\ current_score_lookup(source)[1] < threshold
    IN  IF choice # None /\ ~below
        THEN Some(<<IF side_to_copy = "Choices" THEN choice[1].path
                    ELSE source.file.path,
                    rename(source.file.name, choice[1].name)>>)
        ELSE IF include_failed /\ side_to_copy = "Sources"
        THEN Some(<<source.file.path, source.file.name>>)
        ELSE None

\* A plausible slip: the origin is always the source's path.
rename_entry_source_path(source, include_failed) ==
    LET choice == IF current_choice(source) = None THEN None
                  ELSE choice_get(current_choice(source)[1])
        below == /\ current_score(source) # None
                 /\ current_score(source)[1] < threshold
    IN  IF choice # None /\ ~below
        THEN Some(<<source.file.path, rename(source.file.name, choice[1].name)>>)
        ELSE IF include_failed /\ side_to_copy = "Sources"
        THEN Some(<<source.file.path, source.file.name>>)
        ELSE None

\* A plausible slip: unmatched sources are included whatever the side.
rename_entry_any_side(source, include_failed) ==
    LET choice == IF current_choice(source) = None THEN None
                  ELSE choice_get(current_choice(source)[1])
        below == /\ current_score(source) # None
                 /\ current_score(source)[1] < threshold
    IN  IF choice # None /\ ~below
        THEN Some(<<IF side_to_copy = "Choices" THEN choice[1].path
                    ELSE source.file.path,
                    rename(source.file.name, choice[1].name)>>)
        ELSE IF include_failed
        THEN Some(<<source.file.path, source.file.name>>)
        ELSE None

\* The closure of iter_renames' filter_map (lines 271-288) for one source.
rename_entry(source, include_failed) ==
    LET choice == IF current_choice(source) = None THEN None
                  ELSE choice_get(current_choice(source)[1])
        below_threshold == /\ current_score(source) # None
                           /\ current_score(source)[1] < threshold
    IN  IF choice # None /\ ~below_threshold
        THEN Some(<<IF side_to_copy = "Choices" THEN choice[1].path
                    ELSE source.file.path,
                    rename(source.file.name, choice[1].name)>>)
        ELSE IF include_failed /\ side_to_copy = "Sources"
        THEN Some(<<source.file.path, source.file.name>>)
        ELSE None

\* A plausible slip: pairs of a destination name already in the plan are
\* dropped.
RECURSIVE collect_renames_dedup(_, _)
collect_renames_dedup(sources, include_failed) ==
    IF sources = <<>> THEN <<>>
    ELSE LET front == collect_renames_dedup(SubSeq(sources, 1, Len(sources) - 1),
                                            include_failed)
             entry == rename_entry(sources[Len(sources)], include_failed)
         IN  IF entry = None \/ \E k \in 1..Len(front) : front[k][2] = entry[1][2]
             THEN front
             ELSE front \o entry

\* filter_map(..).collect() over the source records, in their order.
RECURSIVE collect_renames(_, _)
collect_renames(sources, include_failed) ==
    IF sources = <<>> THEN <<>>
    ELSE rename_entry(Head(sources), include_failed)
         \o collect_renames(Tail(sources), include_failed)

\* MainApp::iter_renames
iter_renames(include_failed) == collect_renames(source_names, include_failed)

\* Whether iter_renames panics: it looks up the current choice of every
\* record that has one (line 275), and collects the plan before any file is
\* touched.
iter_renames_panics ==
    \E i \in 1..Len(source_names) :
        /\ current_choice(source_names[i]) # None
        /\ choice_get_panics(current_choice(source_names[i])[1])

\* ------------------------------------------------- the copy and rename loops

\* The results of one item of a loop: try_exists and then fs::copy or
\* fs::rename give Ok(true) when the destination existed, Ok(false) when it
\* did not, and Err when either call failed.
FileResult == {"Ok_true", "Ok_false", "Err"}

\* A plausible slip: the loop stops at the first item that fails.
RECURSIVE copy_loop_abort(_, _)
copy_loop_abort(pairs, outcomes) ==
    IF pairs = <<>>
    THEN [copy_count |-> 0, replace_count |-> 0, failed_count |-> 0, attempted |-> <<>>]
    ELSE LET n == Len(pairs)
             done == copy_loop_abort(SubSeq(pairs, 1, n - 1), SubSeq(outcomes, 1, n - 1))
             item == <<pairs[n][1], pairs[n][2], outcomes[n]>>
         IN  IF done.failed_count > 0 THEN done
             ELSE IF outcomes[n] = "Ok_true"
             THEN [done EXCEPT !.replace_count = @ + 1, !.copy_count = @ + 1,
                               !.attempted = Append(@, item)]
             ELSE IF outcomes[n] = "Ok_false"
             THEN [done EXCEPT !.copy_count = @ + 1, !.attempted = Append(@, item)]
             ELSE [done EXCEPT !.failed_count = @ + 1, !.attempted = Append(@, item)]

\* The loop of "Copy results to folder" (lines 483-505) over the plan, with
\* outcomes[k] the result of its k-th item: the counters at its end and the
\* items it attempted, in order.
RECURSIVE copy_loop(_, _)
copy_loop(pairs, outcomes) ==
    IF pairs = <<>>
    THEN [copy_count |-> 0, replace_count |-> 0, failed_count |-> 0, attempted |-> <<>>]
    ELSE LET n == Len(pairs)
             done == copy_loop(SubSeq(pairs, 1, n - 1), SubSeq(outcomes, 1, n - 1))
             item == <<pairs[n][1], pairs[n][2], outcomes[n]>>
         IN  IF outcomes[n] = "Ok_true"
             THEN [done EXCEPT !.replace_count = @ + 1, !.copy_count = @ + 1,
                               !.attempted = Append(@, item)]
             ELSE IF outcomes[n] = "Ok_false"
             THEN [done EXCEPT !.copy_count = @ + 1, !.attempted = Append(@, item)]
             ELSE [done EXCEPT !.failed_count = @ + 1, !.attempted = Append(@, item)]

\* The loop of "Directly rename files" (lines 532-557); every path of the
\* model has a parent, so the branch of line 553 is not taken.
RECURSIVE rename_loop(_, _)
rename_loop(pairs, outcomes) ==
    IF pairs = <<>>
    THEN [rename_count |-> 0, replace_count |-> 0, failed_count |-> 0, attempted |-> <<>>]
    ELSE LET n == Len(pairs)
             done == rename_loop(SubSeq(pairs, 1, n - 1), SubSeq(outcomes, 1, n - 1))
             item == <<pairs[n][1], pairs[n][2], outcomes[n]>>
         IN  IF outcomes[n] = "Ok_true"
             THEN [done EXCEPT !.replace_count = @ + 1, !.rename_count = @ + 1,
                               !.attempted = Append(@, item)]
             ELSE IF outcomes[n] = "Ok_false"
             THEN [done EXCEPT !.rename_count = @ + 1, !.attempted = Append(@, item)]
             ELSE [done EXCEPT !.failed_count = @ + 1, !.attempted = Append(@, item)]

\* The results try_exists and fs::copy give over the plan from its item k on,
\* into the folder picked: files are the files there are when the item runs,
\* faults the items whose calls fail for a reason of the file system's, and
\* left those of them whose fs::copy fails once it has opened its
\* destination (a full file system, a failed write), which leaves a file
\* there; the other faults (try_exists, a file that cannot be opened) leave
\* the files as they are.  The new names "." and ".." are directories, on
\* which the copy fails, as it does on an origin that is not there, before a
\* destination is opened; a destination that is there, from before or from
\* an item before, failed or not, the origin itself included, exists and
\* stays; any other is made.
RECURSIVE copy_results(_, _, _, _, _, _)
copy_results(pairs, folder, files, faults, left, k) ==
    IF k > Len(pairs) THEN <<>>
    ELSE LET file_origin == pairs[k][1]
             destination == PathBuf(folder, pairs[k][2])
         IN  IF \/ pairs[k][2] \in {<<".">>, <<".", ".">>}
                \/ file_origin \notin files
             THEN <<"Err">>
                  \o copy_results(pairs, folder, files, faults, left, k + 1)
             ELSE IF k \in faults
             THEN <<"Err">>
                  \o copy_results(pairs, folder,
                                  IF k \in left THEN files \cup {destination}
                                  ELSE files,
                                  faults, left, k + 1)
             ELSE <<IF destination \in files THEN "Ok_true" ELSE "Ok_false">>
                  \o copy_results(pairs, folder, files \cup {destination},
                                  faults, left, k + 1)

\* The files there are once fs::copy has run over the plan from its item k
\* on: every copy that succeeds leaves a file at its destination, and so
\* does every copy that fails once it has opened it.
RECURSIVE copy_files(_, _, _, _, _, _)
copy_files(pairs, folder, files, faults, left, k) ==
    IF k > Len(pairs) THEN files
    ELSE LET file_origin == pairs[k][1]
             destination == PathBuf(folder, pairs[k][2])
         IN  IF \/ pairs[k][2] \in {<<".">>, <<".", ".">>}
                \/ file_origin \notin files
                \/ (k \in faults /\ k \notin left)
             THEN copy_files(pairs, folder, files, faults, left, k + 1)
             ELSE copy_files(pairs, folder, files \cup {destination},
                             faults, left, k + 1)

\* The results try_exists and fs::rename give over the plan from its item k
\* on: the new names "." and ".." are directories, on which the rename fails,
\* as it does on an origin that is not there (never there, or moved away by
\* an item or a click before); a destination that is there, the origin itself
\* included, is replaced; any other is made.  The origin is gone after its
\* rename, unless it is its own destination.
RECURSIVE rename_results(_, _, _, _)
rename_results(pairs, files, faults, k) ==
    IF k > Len(pairs) THEN <<>>
    ELSE LET file_origin == pairs[k][1]
             destination == PathBuf(file_origin.dir, pairs[k][2])
         IN  IF \/ pairs[k][2] \in {<<".">>, <<".", ".">>}
                \/ file_origin \notin files
                \/ k \in faults
             THEN <<"Err">> \o rename_results(pairs, files, faults, k + 1)
             ELSE <<IF destination \in files THEN "Ok_true" ELSE "Ok_false">>
                  \o rename_results(pairs, (files \ {file_origin}) \cup {destination},
                                    faults, k + 1)

\* The files there are once fs::rename has run over the plan from its item k
\* on: every rename that succeeds moves its origin to its destination.
RECURSIVE rename_files(_, _, _, _)
rename_files(pairs, files, faults, k) ==
    IF k > Len(pairs) THEN files
    ELSE LET file_origin == pairs[k][1]
             destination == PathBuf(file_origin.dir, pairs[k][2])
         IN  IF \/ pairs[k][2] \in {<<".">>, <<".", ".">>}
                \/ file_origin \notin files
                \/ k \in faults
             THEN rename_files(pairs, files, faults, k + 1)
             ELSE rename_files(pairs, (files \ {file_origin}) \cup {destination},
                               faults, k + 1)

\* ---------------------------------------------------------------- actions

\* No handler runs while a frame is still rendering its rows, nor after a
\* panic.
Idle == ~crashed /\ task = ListTask_None

\* "Sources > Import folder" and "Import files" (lines 328-369): add_source
\* for every file, in the order given.
ImportSources(files, most) ==
    /\ Idle
    /\ Len(source_names) + Len(files) <= most
    /\ source_names' = add_sources(source_names, choice_names, algorithm, files)
    /\ renames' = None
    /\ UNCHANGED <<choice_names, algorithm, keep_extension, side_to_copy,
                   copy_failed_sources, threshold, task, pending_rows, crashed, disk>>

\* "Sources > Clear all sources > Yes" (lines 373-379).
ClearAllSources ==
    /\ Idle
    /\ source_names' = <<>>
    /\ renames' = None
    /\ UNCHANGED <<choice_names, algorithm, keep_extension, side_to_copy,
                   copy_failed_sources, threshold, task, pending_rows, crashed, disk>>

\* "Choices > Import folder" and "Import files" (lines 390-437): add_choice
\* for every file, then update_all when at least one file was given.
ImportChoices(files, most) ==
    /\ Idle
    /\ Len(choice_names) + Len(files) <= most
    /\ choice_names' = add_choices(choice_names, files)
    /\ IF files # <<>>
       THEN source_names' \in update_all(source_names, choice_names', algorithm)
       ELSE source_names' = source_names
    /\ renames' = None
    /\ UNCHANGED <<algorithm, keep_extension, side_to_copy,
                   copy_failed_sources, threshold, task, pending_rows, crashed, disk>>

\* "Choices > Clear all references > Yes" (lines 447-454).
ClearAllReferences ==
    /\ Idle
    /\ choice_names' = <<>>
    /\ source_names' \in update_all(source_names, <<>>, algorithm)
    /\ renames' = None
    /\ UNCHANGED <<algorithm, keep_extension, side_to_copy,
                   copy_failed_sources, threshold, task, pending_rows, crashed, disk>>

\* "Output > Keep extensions" (line 464).
ToggleKeepExtension ==
    /\ Idle
    /\ keep_extension' = ~keep_extension
    /\ renames' = None
    /\ UNCHANGED <<source_names, choice_names, algorithm, side_to_copy,
                   copy_failed_sources, threshold, task, pending_rows, crashed, disk>>

\* "Output > Rename Choices / Rename Sources" (lines 467-468).
SelectSideToCopy(side) ==
    /\ Idle
    /\ side # side_to_copy
    /\ side_to_copy' = side
    /\ renames' = None
    /\ UNCHANGED <<source_names, choice_names, algorithm, keep_extension,
                   copy_failed_sources, threshold, task, pending_rows, crashed, disk>>

\* "Output > Copy results to folder" (lines 474-519): the plan, and the copy
\* loop over it into the folder picked, which leaves its copies there; the
\* calls of the items faults fail, those of the items left once the
\* destination is opened.  A panic while the plan is built ends the process
\* before any file is touched.
CopyResultsToFolder(folder, faults, left) ==
    /\ Idle
    /\ faults \subseteq 1..Len(iter_renames(copy_failed_sources))
    /\ left \subseteq faults
    /\ IF iter_renames_panics
       THEN crashed' = TRUE /\ UNCHANGED <<renames, disk>>
       ELSE LET pairs == iter_renames(copy_failed_sources)
            IN  /\ crashed' = crashed
                /\ renames' = Some([include_failed |-> copy_failed_sources,
                                    pairs |-> pairs,
                                    handler |-> "copy",
                                    counts |-> copy_loop(pairs,
                                                  copy_results(pairs, folder, disk,
                                                               faults, left, 1))])
                /\ disk' = copy_files(pairs, folder, disk, faults, left, 1)
    /\ UNCHANGED <<source_names, choice_names, algorithm, keep_extension,
                   side_to_copy, copy_failed_sources, threshold, task,
                   pending_rows>>

\* "Output > Include missing results" (lines 521-526), shown for Sources.
ToggleCopyFailedSources ==
    /\ Idle
    /\ side_to_copy = "Sources"
    /\ copy_failed_sources' = ~copy_failed_sources
    /\ renames' = None
    /\ UNCHANGED <<source_names, choice_names, algorithm, keep_extension,
                   side_to_copy, threshold, task, pending_rows, crashed, disk>>

\* "Output > Directly rename files > Yes" (lines 529-571), shown for
\* Sources: the plan, and the rename loop over it, which moves the files; the
\* calls of the items faults fail.  No field but the status changes: the
\* records keep the paths the files had.  A panic while the plan is built
\* ends the process before any file is touched.
DirectlyRenameFiles(faults) ==
    /\ Idle
    /\ side_to_copy = "Sources"
    /\ faults \subseteq 1..Len(iter_renames(FALSE))
    /\ IF iter_renames_panics
       THEN crashed' = TRUE /\ UNCHANGED <<renames, disk>>
       ELSE LET pairs == iter_renames(FALSE)
            IN  /\ crashed' = crashed
                /\ renames' = Some([include_failed |-> FALSE,
                                    pairs |-> pairs,
                                    handler |-> "rename",
                                    counts |-> rename_loop(pairs,
                                                  rename_results(pairs, disk,
                                                                 faults, 1))])
                /\ disk' = rename_files(pairs, disk, faults, 1)
    /\ UNCHANGED <<source_names, choice_names, algorithm, keep_extension,
                   side_to_copy, copy_failed_sources, threshold, task,
                   pending_rows>>

\* "Options > Similarity" (line 581).
SetThreshold(value) ==
    /\ Idle
    /\ value # threshold
    /\ threshold' = value
    /\ renames' = None
    /\ UNCHANGED <<source_names, choice_names, algorithm, keep_extension,
                   side_to_copy, copy_failed_sources, task, pending_rows, crashed, disk>>

\* "Options > Search Algorithm" (lines 584-616): a radio button of another
\* algorithm changes the value and runs update_all.
SelectAlgorithm(variant) ==
    /\ Idle
    /\ variant # algorithm
    /\ algorithm' = variant
    /\ source_names' \in update_all(source_names, choice_names, variant)
    /\ renames' = None
    /\ UNCHANGED <<choice_names, keep_extension, side_to_copy,
                   copy_failed_sources, threshold, task, pending_rows, crashed, disk>>

\* The row's menu indexes choice_names by every candidate (line 760), which
\* panics on an index out of range.
menu_panics(item) ==
    \E k \in 1..Len(item.choice_map) : item.choice_map[k][1] >= Len(choice_names)

\* A button of the menu of row row_index replaces the row's record by item.
RowMenu(row_index, item) ==
    /\ Idle
    /\ row_index < Len(source_names)
    /\ IF menu_panics(source_names[row_index + 1])
       THEN crashed' = TRUE /\ source_names' = source_names
       ELSE crashed' = crashed
            /\ source_names' = [source_names EXCEPT ![row_index + 1] = item]
    /\ renames' = None
    /\ UNCHANGED <<choice_names, algorithm, keep_extension, side_to_copy,
                   copy_failed_sources, threshold, task, pending_rows, disk>>

\* A candidate's button of the row's menu (lines 753-770).
PickMatch(row_index, c_index) ==
    /\ row_index < Len(source_names)
    /\ c_index < Len(source_names[row_index + 1].choice_map)
    /\ RowMenu(row_index,
               set_choice(source_names[row_index + 1],
                          Some(source_names[row_index + 1].choice_map[c_index + 1][1])))

\* "[Don't use match]" (lines 771-773).
DontUseMatch(row_index) ==
    /\ row_index < Len(source_names)
    /\ RowMenu(row_index, set_choice(source_names[row_index + 1], None))

\* "Restore default" (lines 777-781), shown when a manual choice is set.
RestoreDefault(row_index) ==
    /\ row_index < Len(source_names)
    /\ source_names[row_index + 1].manual_choice # None
    /\ RowMenu(row_index, reset_choice(source_names[row_index + 1]))

\* The end of a row's closure (lines 812-818) with task = RemoveRow(index).
RunTask(index) ==
    IF index < Len(source_names)
    THEN source_names' = remove_source(source_names, index) /\ crashed' = crashed
    ELSE source_names' = source_names /\ crashed' = TRUE

\* "Remove source > Yes" in the menu of row row_index (lines 782-787), in a
\* frame that renders the rows up to max_row (exclusive): the row's closure
\* sets the task and runs it at its end.
ConfirmRemoveSource(row_index, max_row) ==
    /\ Idle
    /\ row_index < Len(source_names)
    /\ max_row \in (row_index + 1)..Len(source_names)
    /\ IF menu_panics(source_names[row_index + 1])
       THEN /\ crashed' = TRUE
            /\ UNCHANGED <<source_names, task, pending_rows>>
       ELSE /\ task' = RemoveRow(row_index)
            /\ RunTask(row_index)
            /\ pending_rows' = [k \in 1..(max_row - row_index - 1) |-> row_index + k]
    /\ renames' = None
    /\ UNCHANGED <<choice_names, algorithm, keep_extension, side_to_copy,
                   copy_failed_sources, threshold, disk>>

\* The closure of the next row of the frame (lines 720-819) once a task is
\* set: it indexes source_names by the row (line 721) and runs the task.
RenderRow ==
    /\ ~crashed
    /\ task # ListTask_None
    /\ pending_rows # <<>>
    /\ IF Head(pending_rows) < Len(source_names)
       THEN RunTask(task.row) /\ pending_rows' = Tail(pending_rows)
       ELSE crashed' = TRUE /\ UNCHANGED <<source_names, pending_rows>>
    /\ UNCHANGED <<choice_names, algorithm, keep_extension, side_to_copy,
                   copy_failed_sources, threshold, renames, task, disk>>

\* The frame ends; the next frame starts with ListTask::None (line 672).
EndFrame ==
    /\ ~crashed
    /\ task # ListTask_None
    /\ pending_rows = <<>>
    /\ task' = ListTask_None
    /\ UNCHANGED <<source_names, choice_names, algorithm, keep_extension,
                   side_to_copy, copy_failed_sources, threshold, renames,
                   pending_rows, crashed, disk>>

\* ---------------------------------------------------- application model

\* The values threshold can have in the storage MainApp::new reads: those of
\* the slider, and 5.0, which the slider cannot give.
StoredThresholds == Thresholds \cup {5 * Scale}

\* MainApp::new: the options and the algorithm are those of the storage that
\* save wrote, or the defaults when there is none; the sources and the
\* choices are not stored and start empty.
MainApp_new ==
    /\ source_names = <<>>
    /\ choice_names = <<>>
    /\ algorithm \in SearchAlgorithm
    /\ keep_extension \in BOOLEAN
    /\ side_to_copy \in SideToUse
    /\ copy_failed_sources \in BOOLEAN
    /\ threshold \in StoredThresholds
    /\ renames = None
    /\ task = ListTask_None
    /\ pending_rows = <<>>
    /\ crashed = FALSE

\* MainApp::new in folders that hold any of the files the model imports.
Init ==
    /\ MainApp_new
    /\ disk \in SUBSET (SourcePaths \cup ChoicePaths)

\* MainApp::new with no storage: MainApp::default and FuzzySearch::default;
\* every file is there.
InitDefault ==
    /\ Init
    /\ disk = SourcePaths \cup ChoicePaths
    /\ algorithm = "Jaro"
    /\ keep_extension = FALSE
    /\ side_to_copy = "Choices"
    /\ copy_failed_sources = TRUE
    /\ threshold = (7 * Scale) \div 10

\* MainApp::new with a storage of any algorithm and the default options;
\* every file is there.
InitEngine ==
    /\ Init
    /\ disk = SourcePaths \cup ChoicePaths
    /\ keep_extension = FALSE
    /\ side_to_copy = "Choices"
    /\ copy_failed_sources = TRUE
    /\ threshold = (7 * Scale) \div 10

\* MainApp::new with a storage of the default algorithm, of a threshold of
\* the slider's and of any other option, in folders that hold every file the
\* handlers can name, so that every copy finds its origin and replaces a
\* file.
InitPlan ==
    /\ disk = files_in_reach(SourcePaths, ChoicePaths)
    /\ MainApp_new
    /\ algorithm = "Jaro"
    /\ threshold \in Thresholds

ImportSourceFiles ==
    \E files \in Batches(SourcePaths \cup {BadPath}) :
        ImportSources(files, MaxSources)

ImportChoiceFiles ==
    \E files \in Batches(ChoicePaths \cup {BadPath}) :
        ImportChoices(files, MaxChoices)

ChooseAlgorithm == \E variant \in SearchAlgorithm : SelectAlgorithm(variant)

ClickPickMatch ==
    \E row_index \in 0..(MaxSources - 1), c_index \in 0..(CHOICE_PREVIEW_COUNT - 1) :
        PickMatch(row_index, c_index)

ClickDontUseMatch == \E row_index \in 0..(MaxSources - 1) : DontUseMatch(row_index)

ClickRestoreDefault == \E row_index \in 0..(MaxSources - 1) : RestoreDefault(row_index)

ClickRemoveSource ==
    \E row_index \in 0..(MaxSources - 1), max_row \in 1..MaxSources :
        ConfirmRemoveSource(row_index, max_row)

\* The matching engine under its handlers, from any stored algorithm; the
\* output options keep their defaults.
Next ==
    \/ ImportSourceFiles
    \/ ClearAllSources
    \/ ImportChoiceFiles
    \/ ClearAllReferences
    \/ ChooseAlgorithm
    \/ ClickPickMatch
    \/ ClickDontUseMatch
    \/ ClickRestoreDefault
    \/ ClickRemoveSource
    \/ RenderRow
    \/ EndFrame

Spec == InitEngine /\ [][Next]_vars

\* ------------------------------------------------------------ plan model

\* The plan builder under the output options, the manual choices and the
\* imports, one file at a time, with Jaro, the default algorithm.  The file
\* dialog and read_dir give files that are there; a choice's file is
\* imported once.
PlanImportSource ==
    \E path \in SourcePaths \cap disk : ImportSources(<<path>>, MaxPlanSources)

PlanImportChoice ==
    \E path \in ChoicePaths \cap disk :
        /\ \A k \in 1..Len(choice_names) : choice_names[k].path # path
        /\ ImportChoices(<<path>>, MaxPlanChoices)

PlanChooseSide == \E side \in SideToUse : SelectSideToCopy(side)

PlanMoveSlider == \E value \in Thresholds : SetThreshold(value)

PlanPickMatch ==
    \E row_index \in 0..(MaxPlanSources - 1), c_index \in 0..(MaxPlanChoices - 1) :
        PickMatch(row_index, c_index)

PlanDontUseMatch ==
    \E row_index \in 0..(MaxPlanSources - 1) : DontUseMatch(row_index)

PlanRestoreDefault ==
    \E row_index \in 0..(MaxPlanSources - 1) : RestoreDefault(row_index)

\* The copies go to any folder, and no call fails but for the files there
\* are.  The plan of "Directly rename files" is that of a copy without the
\* missing results; the files it moves are followed in the rename and copy
\* models.
PlanCopyResults == \E folder \in Folders : CopyResultsToFolder(folder, {}, {})

NextPlan ==
    \/ PlanImportSource
    \/ PlanImportChoice
    \/ ClearAllReferences
    \/ PlanChooseSide
    \/ ToggleKeepExtension
    \/ PlanCopyResults
    \/ ToggleCopyFailedSources
    \/ PlanMoveSlider
    \/ PlanPickMatch
    \/ PlanDontUseMatch
    \/ PlanRestoreDefault

SpecPlan == InitPlan /\ [][NextPlan]_vars

\* ----------------------------------------------------------- table model

\* The rows of the table under their menus and the removal of a row, with
\* imports of one file at a time and Jaro, the default algorithm.
RowsImportSource ==
    \E path \in SourcePaths : ImportSources(<<path>>, MaxRows)

RowsImportChoice ==
    \E path \in ChoicePaths : ImportChoices(<<path>>, MaxRowChoices)

RowsPickMatch ==
    \E row_index \in 0..(MaxRows - 1), c_index \in 0..(MaxRowChoices - 1) :
        PickMatch(row_index, c_index)

RowsDontUseMatch == \E row_index \in 0..(MaxRows - 1) : DontUseMatch(row_index)

RowsRemoveSource ==
    \E row_index \in 0..(MaxRows - 1), max_row \in 1..MaxRows :
        ConfirmRemoveSource(row_index, max_row)

NextRows ==
    \/ RowsImportSource
    \/ RowsImportChoice
    \/ RowsPickMatch
    \/ RowsDontUseMatch
    \/ RowsRemoveSource
    \/ RenderRow
    \/ EndFrame

SpecRows == InitDefault /\ [][NextRows]_vars

\* ----------------------------------------------------------- top-K model

\* One source record against a long list of choices: the list starts empty
\* or as a block of one file followed by a block of another, TopKBase files
\* in all, and grows by imports of one file, TopKTail files at most.
TopKChoicePaths == ChoicePaths \cup {PathBuf("c", NameC)}

TopKBase == CHOICE_PREVIEW_COUNT - 2

TopKTail == MaxTopKChoices - TopKBase

TopKBases ==
    {<<>>} \cup
    {add_choices(<<>>, [k \in 1..TopKBase |-> IF k <= i THEN x ELSE y]) :
        x \in TopKChoicePaths, y \in TopKChoicePaths, i \in 0..TopKBase}

InitTopK ==
    /\ choice_names \in TopKBases
    /\ algorithm \in SearchAlgorithm
    /\ \E path \in SourcePaths :
           source_names = add_source(<<>>, choice_names, algorithm, path)
    /\ keep_extension = FALSE
    /\ side_to_copy = "Choices"
    /\ copy_failed_sources = TRUE
    /\ threshold = (7 * Scale) \div 10
    /\ renames = None
    /\ task = ListTask_None
    /\ pending_rows = <<>>
    /\ crashed = FALSE
    /\ disk = SourcePaths \cup TopKChoicePaths

TopKImportChoice ==
    /\ Len(choice_names) < TopKTail \/ Len(choice_names) >= TopKBase
    /\ \E path \in TopKChoicePaths : ImportChoices(<<path>>, MaxTopKChoices)

NextTopK == TopKImportChoice

SpecTopK == InitTopK /\ [][NextTopK]_vars

\* ---------------------------------------------------------- rename model

\* The names the resolver is tried on: every name of at most MaxNameLen
\* characters that a file can have, and the names of the documented examples.
ExampleNames == {NamePhotoPng, NameCoverJpg, NameA, NameBTxt}

RenameNames ==
    (SeqsUpTo(Alphabet, MaxNameLen) \ {<<>>, <<".">>, <<".", ".">>})
    \cup ExampleNames

\* One source and one choice of any names, under any output options, with
\* the slider at 0.0 so that the automatic match is accepted, in folders that
\* hold every file the handlers can name or, for the names of the documented
\* examples, the two files imported and no other.
InitRename ==
    /\ \E name \in RenameNames : choice_names = add_choice(<<>>, PathBuf("c", name))
    /\ algorithm = "Jaro"
    /\ \E name \in RenameNames :
           source_names = add_source(<<>>, choice_names, algorithm, PathBuf("s", name))
    /\ keep_extension \in BOOLEAN
    /\ side_to_copy \in SideToUse
    /\ copy_failed_sources = TRUE
    /\ threshold = 0
    /\ renames = None
    /\ task = ListTask_None
    /\ pending_rows = <<>>
    /\ crashed = FALSE
    /\ disk \in {files_in_reach({source_names[1].file.path}, {choice_names[1].path})}
                \cup IF {source_names[1].file.name, choice_names[1].name}
                            \subseteq ExampleNames
                     THEN {{source_names[1].file.path, choice_names[1].path}}
                     ELSE {}

\* The copy goes to any folder, and no call fails but for the files there
\* are.
RenameCopyResults == \E folder \in Folders : CopyResultsToFolder(folder, {}, {})

RenameRenameFiles == DirectlyRenameFiles({})

NextRename ==
    \/ ToggleKeepExtension
    \/ RenameCopyResults
    \/ RenameRenameFiles

SpecRename == InitRename /\ [][NextRename]_vars

\* ------------------------------------------------------------ copy model

\* The copy and rename loops over plans of up to MaxCopyPairs pairs: one
\* choice, the sources imported in one batch, and a threshold of 0.0, under
\* which every source is matched, or a stored one of 5.0, under which none
\* is.  Every file imported is there, with any of the other files of the
\* sources' folder; the copies go to any folder, whose files are those the
\* handlers have left there, and the calls of any items of a loop can fail
\* for a reason of the file system's, a copy before or after its destination
\* is opened.
InitCopy ==
    /\ choice_names = add_choices(<<>>, <<PathBuf("c", NameAB_Y)>>)
    /\ algorithm = "Jaro"
    /\ \E files \in SeqsUpTo(SourcePaths, MaxCopyPairs) :
           source_names = add_sources(<<>>, choice_names, algorithm, files)
    /\ keep_extension = FALSE
    /\ side_to_copy \in SideToUse
    /\ copy_failed_sources = TRUE
    /\ threshold \in {0, 5 * Scale}
    /\ renames = None
    /\ task = ListTask_None
    /\ pending_rows = <<>>
    /\ crashed = FALSE
    /\ \E others \in SUBSET SourcePaths :
           disk = {source_names[i].file.path : i \in 1..Len(source_names)}
                  \cup others \cup {PathBuf("c", NameAB_Y)}

CopyFiles ==
    \E folder \in Folders,
       faults \in SUBSET (1..Len(iter_renames(copy_failed_sources))) :
        \E left \in SUBSET faults : CopyResultsToFolder(folder, faults, left)

RenameFiles ==
    \E faults \in SUBSET (1..Len(iter_renames(FALSE))) : DirectlyRenameFiles(faults)

NextCopy ==
    \/ CopyFiles
    \/ RenameFiles

SpecCopy == InitCopy /\ [][NextCopy]_vars

\* ------------------------------------------------------------------ claims

\* The similarity of a source record and the choice of 0-based index c,
\* under the current algorithm.
ScoreOf(source, c) ==
    compare(algorithm, remove_extension(source.file.name),
            remove_extension(choice_names[c + 1].name))

\* The choice indices a record's candidate list holds.
Listed(source) == {source.choice_map[k][1] : k \in 1..Len(source.choice_map)}

AllChoices == 0..(Len(choice_names) - 1)

\* C1: after update_choices against N choices the candidate list has
\* min(N, 10) entries, of distinct choices with their own scores, and every
\* score in the list is at least the score of every choice left out.
TopKSelection ==
    \A i \in 1..Len(source_names) :
        LET source == source_names[i]
        IN  /\ Len(source.choice_map) = Min2(Len(choice_names), CHOICE_PREVIEW_COUNT)
            /\ Cardinality(Listed(source)) = Len(source.choice_map)
            /\ Listed(source) \subseteq AllChoices
            /\ \A k \in 1..Len(source.choice_map) :
                   /\ source.choice_map[k][2] = ScoreOf(source, source.choice_map[k][1])
                   /\ \A c \in AllChoices \ Listed(source) :
                          source.choice_map[k][2] >= ScoreOf(source, c)

\* C1 witness: more choices than slots, a choice imported after the slots
\* were full is listed, and a choice of a strictly lower score is left out.
TopKSelectionWitness ==
    /\ Len(choice_names) > CHOICE_PREVIEW_COUNT
    /\ Len(source_names) = 1
    /\ \E c \in Listed(source_names[1]) : c >= CHOICE_PREVIEW_COUNT
    /\ \E c \in AllChoices \ Listed(source_names[1]) :
           \A k \in 1..Len(source_names[1].choice_map) :
               source_names[1].choice_map[k][2] > ScoreOf(source_names[1], c)

\* C2: every candidate list is sorted by descending score, and a record with
\* no manual choice picks a choice of the highest score among all choices.
SortedDescending ==
    \A i \in 1..Len(source_names) :
        LET source == source_names[i]
        IN  /\ \A k \in 1..(Len(source.choice_map) - 1) :
                   source.choice_map[k][2] >= source.choice_map[k + 1][2]
            /\ (source.manual_choice = None /\ choice_names # <<>>) =>
                   /\ current_choice(source) # None
                   /\ current_choice(source)[1] \in AllChoices
                   /\ \A c \in AllChoices :
                          ScoreOf(source, current_choice(source)[1]) >= ScoreOf(source, c)

\* C2 witness: more choices than slots, the pick is not the first choice and
\* scores strictly below it are listed after it.
SortedDescendingWitness ==
    /\ Len(choice_names) > CHOICE_PREVIEW_COUNT
    /\ Len(source_names) = 1
    /\ source_names[1].manual_choice = None
    /\ current_choice(source_names[1]) # None
    /\ current_choice(source_names[1])[1] > 0
    /\ ScoreOf(source_names[1], 0) < source_names[1].choice_map[1][2]
    /\ source_names[1].choice_map[CHOICE_PREVIEW_COUNT][2]
           < source_names[1].choice_map[1][2]

\* C3: current_choice follows the manual choice: a manual index is returned
\* whether or not it is a candidate, a manual "no match" returns none, and
\* with no manual choice the first candidate's index is returned, or none
\* when there is no candidate.
CurrentChoiceByOverride ==
    \A i \in 1..Len(source_names) :
        LET source == source_names[i]
        IN  /\ \A c \in 0..MaxChoices :
                   source.manual_choice = Some(Some(c)) =>
                       current_choice(source) = Some(c)
            /\ source.manual_choice = Some(None) => current_choice(source) = None
            /\ (source.manual_choice = None /\ source.choice_map = <<>>) =>
                   current_choice(source) = None
            /\ (source.manual_choice = None /\ source.choice_map # <<>>) =>
                   current_choice(source) = Some(source.choice_map[1][1])
            /\ source.manual_choice \in
                   {None, Some(None)} \cup {Some(Some(c)) : c \in 0..MaxChoices}

\* C3 witness: one record holds a manual index that is no candidate, another
\* a manual "no match" over a non-empty candidate list.
CurrentChoiceByOverrideWitness ==
    /\ \E i \in 1..Len(source_names) :
           /\ source_names[i].manual_choice \notin {None, Some(None)}
           /\ source_names[i].manual_choice[1][1] \notin Listed(source_names[i])
    /\ \E i \in 1..Len(source_names) :
           /\ source_names[i].manual_choice = Some(None)
           /\ source_names[i].choice_map # <<>>

\* C4: current_score is absent under a manual choice, even of a candidate;
\* with no manual choice it is the first candidate's score, or 0.0 when
\* there is no candidate.
CurrentScoreByOverride ==
    \A i \in 1..Len(source_names) :
        LET source == source_names[i]
        IN  /\ source.manual_choice # None => current_score(source) = None
            /\ (source.manual_choice = None /\ source.choice_map = <<>>) =>
                   current_score(source) = Some(0)
            /\ (source.manual_choice = None /\ source.choice_map # <<>>) =>
                   current_score(source) = Some(source.choice_map[1][2])

\* C4 witness: one record holds a manual index that is a candidate of a
\* positive score, another has no manual choice and a first candidate.
CurrentScoreByOverrideWitness ==
    /\ \E i \in 1..Len(source_names) :
           /\ source_names[i].manual_choice \notin {None, Some(None)}
           /\ \E k \in 1..Len(source_names[i].choice_map) :
                  /\ source_names[i].choice_map[k][1] = source_names[i].manual_choice[1][1]
                  /\ source_names[i].choice_map[k][2] > 0
    /\ \E i \in 1..Len(source_names) :
           /\ source_names[i].manual_choice = None
           /\ source_names[i].choice_map # <<>>

\* A step in which remove_source(index) ran on a collection holding that
\* index: the closure of the clicked row, or of a later row of the frame.
RemoveSourceCall(index) ==
    /\ index < Len(source_names)
    /\ ~crashed'
    /\ task' = RemoveRow(index)
    /\ \/ task = ListTask_None
       \/ task = RemoveRow(index) /\ pending_rows' # pending_rows

\* C10: remove_source(i) on n records removes exactly the record at index i:
\* the other n - 1 records keep their order, files, candidates and manual
\* choices, and the choices and the algorithm are unchanged.
RemoveSourceExact ==
    [][\A index \in 0..(MaxRows - 1) :
          RemoveSourceCall(index) =>
              /\ Len(source_names') = Len(source_names) - 1
              /\ \A k \in 1..Len(source_names') :
                     source_names'[k] = source_names[IF k <= index THEN k ELSE k + 1]
              /\ choice_names' = choice_names
              /\ algorithm' = algorithm]_vars

\* C10 witness: the record at index 0 of three was just removed, and the two
\* records left differ, the first with candidates and a manual choice.
RemoveSourceExactWitness ==
    /\ ~crashed
    /\ task = RemoveRow(0)
    /\ Len(source_names) = 2
    /\ Len(pending_rows) = 2
    /\ source_names[1] # source_names[2]
    /\ source_names[1].manual_choice # None
    /\ source_names[1].choice_map # <<>>

\* The plan of the last copy or rename handler, and its include_failed.
PlanPairs == renames[1].pairs

PlanIncludesFailed == renames[1].include_failed /\ side_to_copy = "Sources"

\* Matched and accepted, as stated: the current choice is present and the
\* current score is absent or at least the threshold.
ClaimedAccepted(source) ==
    /\ current_choice(source) # None
    /\ \/ current_score(source) = None
       \/ current_score(source)[1] >= threshold

\* Matched and accepted, as amended: the current choice is moreover an index
\* of the choices collection.
MatchedAndAccepted(source) ==
    /\ ClaimedAccepted(source)
    /\ current_choice(source)[1] < Len(choice_names)

\* The sources that contribute a pair to a plan built now.
Contributing(include) ==
    {i \in 1..Len(source_names) :
        MatchedAndAccepted(source_names[i]) \/ (include /\ side_to_copy = "Sources")}

\* The position in the plan of the pair of source i.
PlanPosition(i, include) == Cardinality({j \in Contributing(include) : j <= i})

\* C5 as stated: a source yields a renamed pair iff its current choice is
\* present and its score is absent or at least the threshold; so every
\* manual index is accepted whatever the threshold.
AcceptedIffClaimed ==
    \A i \in 1..Len(source_names) :
        rename_entry(source_names[i], FALSE) # None <=> ClaimedAccepted(source_names[i])

\* C5 as amended: a source yields a renamed pair iff its current choice is
\* present and an index of the choices collection, and its score is absent
\* or at least the threshold; a manual index within the collection is
\* accepted whatever the threshold, a source with no manual choice exactly
\* when its best score is at least the threshold.
AcceptedIffInRange ==
    /\ \A i \in 1..Len(source_names) :
           LET source == source_names[i]
               accepted == rename_entry(source, FALSE) # None
           IN  /\ accepted <=> MatchedAndAccepted(source)
               /\ \A c \in AllChoices : source.manual_choice = Some(Some(c)) => accepted
               /\ source.manual_choice = Some(None) => ~accepted
               /\ (source.manual_choice = None /\ source.choice_map # <<>>) =>
                      (accepted <=> source.choice_map[1][2] >= threshold)
    /\ (renames # None /\ ~PlanIncludesFailed) =>
           Len(PlanPairs) = Cardinality(Contributing(FALSE))

\* C5 witness: a plan built with the threshold at 1.0 over a source whose
\* manual index scores below it, and a source with no manual choice whose
\* best score is below it.
AcceptedIffInRangeWitness ==
    /\ renames # None
    /\ threshold = Scale
    /\ \E i \in 1..Len(source_names), c \in AllChoices :
           /\ source_names[i].manual_choice = Some(Some(c))
           /\ ScoreOf(source_names[i], c) < threshold
    /\ \E i \in 1..Len(source_names) :
           /\ source_names[i].manual_choice = None
           /\ source_names[i].choice_map # <<>>
           /\ source_names[i].choice_map[1][2] < threshold

HasDot(s) == \E i \in 1..Len(s) : s[i] = "."

\* extension is what follows the last '.' of original, or empty when
\* original has no '.'.
IsExtensionOf(extension, original) ==
    /\ ~HasDot(extension)
    /\ IF HasDot(original)
       THEN /\ Len(extension) < Len(original)
            /\ original[Len(original) - Len(extension)] = "."
            /\ SubSeq(original, Len(original) - Len(extension) + 1, Len(original))
                   = extension
       ELSE extension = <<>>

\* body is reference without its last '.' and what follows it, or the whole
\* of reference when extensions are kept or reference has no '.'.
IsBodyOf(body, reference) ==
    IF keep_extension \/ ~HasDot(reference) THEN body = reference
    ELSE /\ Len(body) < Len(reference)
         /\ SubSeq(reference, 1, Len(body)) = body
         /\ reference[Len(body) + 1] = "."
         /\ ~HasDot(SubSeq(reference, Len(body) + 2, Len(reference)))

\* destination is body + "." + extension, with the body of reference and the
\* extension of original.
IsRenameOf(destination, original, reference) ==
    \E k \in 1..Len(destination) :
        /\ destination[k] = "."
        /\ IsBodyOf(SubSeq(destination, 1, k - 1), reference)
        /\ IsExtensionOf(SubSeq(destination, k + 1, Len(destination)), original)

\* C6: the plan holds, for every matched-and-accepted source, the pair of an
\* origin and a destination name.  When choices are renamed the origin is the
\* path of the source's current choice and the name has the source's name
\* for its body and the choice's extension; when sources are renamed the
\* origin is the source's own path and the name has the choice's name for
\* its body and the source's extension.  The body is stripped of its own
\* extension unless extensions are kept.
AcceptedPairs ==
    renames # None =>
        \A i \in 1..Len(source_names) :
            MatchedAndAccepted(source_names[i]) =>
                LET source == source_names[i]
                    choice == choice_names[current_choice(source)[1] + 1]
                    at == PlanPosition(i, renames[1].include_failed)
                IN  /\ at <= Len(PlanPairs)
                    /\ side_to_copy = "Choices" =>
                           /\ PlanPairs[at][1] = choice.path
                           /\ IsRenameOf(PlanPairs[at][2], choice.name,
                                         source.file.name)
                    /\ side_to_copy = "Sources" =>
                           /\ PlanPairs[at][1] = source.file.path
                           /\ IsRenameOf(PlanPairs[at][2], source.file.name,
                                         choice.name)

\* C6 witness: a plan that renames choices and keeps extensions, over two
\* choices of different names, with a source whose current choice is the
\* second of them and another source matched to the first: the two pairs
\* have the two choices' paths for origins and different names.
AcceptedPairsWitness ==
    /\ renames # None
    /\ side_to_copy = "Choices"
    /\ keep_extension
    /\ Len(choice_names) = 2
    /\ choice_names[1].name # choice_names[2].name
    /\ Len(PlanPairs) = 2
    /\ \E i, j \in 1..Len(source_names) :
           /\ MatchedAndAccepted(source_names[i])
           /\ MatchedAndAccepted(source_names[j])
           /\ current_choice(source_names[i]) = Some(1)
           /\ current_choice(source_names[j]) = Some(0)
           /\ PlanPairs[PlanPosition(i, renames[1].include_failed)][1]
                  = choice_names[2].path
           /\ PlanPairs[PlanPosition(j, renames[1].include_failed)][1]
                  = choice_names[1].path
    /\ PlanPairs[1][2] # PlanPairs[2][2]

\* C7: a source that is not matched and accepted contributes its own path
\* with its name unchanged when unmatched sources are included and sources
\* are renamed, and nothing otherwise.
UnmatchedPairs ==
    renames # None =>
        /\ Len(PlanPairs) = Cardinality(Contributing(renames[1].include_failed))
        /\ \A i \in 1..Len(source_names) :
               (~MatchedAndAccepted(source_names[i]) /\ PlanIncludesFailed) =>
                   PlanPairs[PlanPosition(i, TRUE)] =
                       <<source_names[i].file.path, source_names[i].file.name>>

\* C7 witness: a plan with unmatched sources included, threshold 0.7, over a
\* source with no manual choice whose best score is below the threshold and
\* a source with a manual "no match".
UnmatchedPairsWitness ==
    /\ renames # None
    /\ PlanIncludesFailed
    /\ threshold = (7 * Scale) \div 10
    /\ \E i \in 1..Len(source_names) :
           /\ source_names[i].manual_choice = None
           /\ source_names[i].choice_map # <<>>
           /\ source_names[i].choice_map[1][2] < threshold
    /\ \E i \in 1..Len(source_names) :
           /\ source_names[i].manual_choice = Some(None)
           /\ source_names[i].choice_map # <<>>

\* The pairs a source can contribute: its renamed pair under one of the
\* choices, or its own path with its name unchanged.
PairsOf(source) ==
    {<<source.file.path, source.file.name>>}
    \cup {<<IF side_to_copy = "Choices" THEN choice_names[c + 1].path
            ELSE source.file.path,
            rename(source.file.name, choice_names[c + 1].name)>> : c \in AllChoices}

\* C8: the plan is an order-preserving selection over the sources: its pairs
\* belong to sources of strictly increasing positions, one pair per
\* contributing source, and pairs of equal destination names are all kept.
OrderPreservingPlan ==
    renames # None =>
        /\ Len(PlanPairs) = Cardinality(Contributing(renames[1].include_failed))
        /\ \E f \in [1..Len(PlanPairs) -> 1..Len(source_names)] :
               /\ \A k \in 1..(Len(PlanPairs) - 1) : f[k] < f[k + 1]
               /\ \A k \in 1..Len(PlanPairs) :
                      /\ f[k] \in Contributing(renames[1].include_failed)
                      /\ PlanPairs[k] \in PairsOf(source_names[f[k]])

\* C8 witness: a plan with two pairs of the same destination name and of
\* different origins.
OrderPreservingPlanWitness ==
    /\ renames # None
    /\ \E k \in 1..(Len(PlanPairs) - 1) :
           /\ PlanPairs[k][2] = PlanPairs[k + 1][2]
           /\ PlanPairs[k][1] # PlanPairs[k + 1][1]

\* C9: the destination name is body + "." + extension: the extension is that
\* of the original (the choice when choices are renamed, else the source),
\* the body is the reference name, stripped of its extension unless
\* extensions are kept; the '.' is there even before an empty extension, as
\* in the two documented examples.
ResolveShape ==
    renames # None =>
        LET source == source_names[1].file.name
            choice == choice_names[1].name
            original == IF side_to_copy = "Choices" THEN choice ELSE source
            reference == IF side_to_copy = "Choices" THEN source ELSE choice
            destination == PlanPairs[1][2]
        IN  /\ Len(PlanPairs) = 1
            /\ IsRenameOf(destination, original, reference)
            /\ (/\ source = NamePhotoPng
                /\ choice = NameCoverJpg
                /\ ~keep_extension
                /\ side_to_copy = "Choices") =>
                   destination = <<"p", "h", "o", "t", "o", ".", "j", "p", "g">>
            /\ (/\ source = NameA
                /\ choice = NameBTxt
                /\ ~keep_extension
                /\ side_to_copy = "Sources") =>
                   destination = <<"b", ".">>

\* C9 witness: the plan of the source "a" and the choice "b.txt" with sources
\* renamed and extensions not kept, which names the destination "b.".
ResolveShapeWitness ==
    /\ renames # None
    /\ source_names[1].file.name = NameA
    /\ choice_names[1].name = NameBTxt
    /\ ~keep_extension
    /\ side_to_copy = "Sources"
    /\ PlanPairs[1][2] = <<"b", ".">>

\* C11: every record's candidates are those update_choices computes for it
\* against the current choices under the current algorithm, in every state
\* the handlers leave.
FreshCandidates ==
    \A i \in 1..Len(source_names) :
        source_names[i].choice_map
            = update_choices(source_names[i], choice_names, algorithm).choice_map

\* C11 witness: an algorithm other than the default is selected, and a record
\* holds candidates that differ from those the default algorithm gives it.
FreshCandidatesWitness ==
    /\ algorithm # "Jaro"
    /\ choice_names # <<>>
    /\ \E i \in 1..Len(source_names) :
           source_names[i].choice_map
               # update_choices(source_names[i], choice_names, "Jaro").choice_map

\* The record's current choice is an index past the choices collection.
Stale(source) ==
    /\ current_choice(source) # None
    /\ current_choice(source)[1] >= Len(choice_names)

\* The source records with "no match" set on the stale ones.
StaleAsNoMatch ==
    [i \in 1..Len(source_names) |->
        IF Stale(source_names[i]) THEN set_choice(source_names[i], None)
        ELSE source_names[i]]

\* C12: no handler that builds a plan panics, whatever indices the records
\* hold, and a plan built over a record whose current choice is past the
\* choices collection treats the record as one with no match: it yields
\* nothing, or its own path with its name unchanged when unmatched sources
\* are included and sources are renamed; the plan is the one built with "no
\* match" set on every such record.
StaleIndexUnmatched ==
    /\ ~crashed
    /\ renames # None =>
           /\ PlanPairs = collect_renames(StaleAsNoMatch, renames[1].include_failed)
           /\ \A i \in 1..Len(source_names) :
                  Stale(source_names[i]) =>
                      rename_entry(source_names[i], renames[1].include_failed)
                          = IF PlanIncludesFailed
                            THEN Some(<<source_names[i].file.path,
                                        source_names[i].file.name>>)
                            ELSE None

\* C12 witness: a plan built over two records and one choice, imported after
\* "Clear all references": one record holds the manual index 1 the clear
\* left behind and gave no pair, the other is matched and gave the plan's
\* only pair.
StaleIndexUnmatchedWitness ==
    /\ ~crashed
    /\ renames # None
    /\ Len(choice_names) = 1
    /\ Len(source_names) = 2
    /\ Len(PlanPairs) = 1
    /\ \E i, j \in 1..Len(source_names) :
           /\ source_names[i].manual_choice = Some(Some(1))
           /\ Stale(source_names[i])
           /\ MatchedAndAccepted(source_names[j])

\* The records whose manual choice is an index past the choices collection.
StaleOverrides ==
    {i \in 1..Len(source_names) :
        /\ source_names[i].manual_choice \notin {None, Some(None)}
        /\ source_names[i].manual_choice[1][1] >= Len(choice_names)}

\* C13 as stated: no reachable state holds a manual index past the choices
\* collection.
NoStaleOverride == StaleOverrides = {}

\* C13 as amended: no step that leaves the choices collection at least as
\* long as it was adds a manual index past the collection; only "Clear all
\* references", which keeps the manual choices, does.
StaleOverrideOnlyByClear ==
    [][Len(choice_names') >= Len(choice_names) =>
          Cardinality(StaleOverrides') <= Cardinality(StaleOverrides)]_vars

\* C13 witness: after a clear and a new import, one record holds a manual
\* index the clear left past the collection and another a manual index
\* picked from its candidates since.
StaleOverrideOnlyByClearWitness ==
    /\ choice_names # <<>>
    /\ StaleOverrides # {}
    /\ \E i \in 1..Len(source_names) :
           /\ i \notin StaleOverrides
           /\ source_names[i].manual_choice \notin {None, Some(None)}
           /\ source_names[i].manual_choice[1][1] \in Listed(source_names[i])

\* C14: a confirmed "Remove source" on a row removes exactly that row's
\* record, and the rows the frame renders after it neither remove another
\* record nor index the collection out of range.
OneRemovalPerFrame ==
    [][/\ (task = ListTask_None /\ task' # ListTask_None /\ ~crashed') =>
              source_names' = remove_source(source_names, task'.row)
       /\ task # ListTask_None =>
              /\ source_names' = source_names
              /\ ~crashed']_vars

\* The items of the last loop whose result is one of results.
ItemsWith(results) ==
    {k \in 1..Len(renames[1].counts.attempted) :
        renames[1].counts.attempted[k][3] \in results}

\* C15: the copy loop attempts every pair of the plan once, in plan order,
\* whatever the items before it did; every item counts in exactly one of
\* copy_count and failed_count, so that they add up to the plan's length;
\* replace_count counts the copied items whose destination existed.
CopyLoopCompletes ==
    (renames # None /\ renames[1].handler = "copy") =>
        LET counts == renames[1].counts
        IN  /\ Len(counts.attempted) = Len(PlanPairs)
            /\ \A k \in 1..Len(PlanPairs) :
                   /\ counts.attempted[k][1] = PlanPairs[k][1]
                   /\ counts.attempted[k][2] = PlanPairs[k][2]
            /\ counts.copy_count = Cardinality(ItemsWith({"Ok_true", "Ok_false"}))
            /\ counts.failed_count = Cardinality(ItemsWith({"Err"}))
            /\ counts.copy_count + counts.failed_count = Len(PlanPairs)
            /\ counts.replace_count = Cardinality(ItemsWith({"Ok_true"}))
            /\ counts.replace_count <= counts.copy_count

\* C15 witness: a copy of two pairs whose first item failed and whose second
\* went on to replace a file.
CopyLoopCompletesWitness ==
    /\ renames # None
    /\ renames[1].handler = "copy"
    /\ Len(PlanPairs) = 2
    /\ renames[1].counts.attempted[1][3] = "Err"
    /\ renames[1].counts.attempted[2][3] = "Ok_true"
    /\ renames[1].counts.copy_count = 1
    /\ renames[1].counts.failed_count = 1
    /\ renames[1].counts.replace_count = 1

\* A step of a handler that runs update_all, told by what sets it off: the
\* choices change (an import of choices, "Clear all references") or the
\* algorithm does, with no removal under way.
UpdateAllStep ==
    /\ task = ListTask_None
    /\ task' = ListTask_None
    /\ \/ choice_names' # choice_names
       \/ algorithm' # algorithm

\* after holds the records of before, each once, with its file and its
\* manual choice.
SameRecords(before, after) ==
    /\ Len(after) = Len(before)
    /\ \E p \in [1..Len(before) -> 1..Len(before)] :
           /\ \A i, j \in 1..Len(before) : p[i] = p[j] => i = j
           /\ \A i \in 1..Len(before) :
                  /\ after[i].file = before[p[i]].file
                  /\ after[i].manual_choice = before[p[i]].manual_choice

AscendingNames(records) ==
    \A i \in 1..(Len(records) - 1) :
        name_le(records[i].file.name, records[i + 1].file.name)

\* C16: a step that runs update_all leaves as many source records as it
\* found, the same ones, each once with its file and manual choice, in
\* ascending order of file name, and when it is set off by a change of the
\* algorithm it leaves the choices as they were; a step that adds sources
\* leaves the records it found as they were and where they were, and puts
\* the new ones after them.
RecomputePermutes ==
    [][/\ UpdateAllStep =>
              /\ Len(source_names') = Len(source_names)
              /\ SameRecords(source_names, source_names')
              /\ AscendingNames(source_names')
              /\ algorithm' # algorithm => choice_names' = choice_names
       /\ Len(source_names') > Len(source_names) =>
              /\ SubSeq(source_names', 1, Len(source_names)) = source_names
              /\ choice_names' = choice_names
              /\ algorithm' = algorithm
              /\ \A k \in (Len(source_names) + 1)..Len(source_names') :
                     source_names'[k].manual_choice = None]_vars

\* C16 witness: with choices imported, a record that holds a manual choice
\* is followed by a record of a lower name, added after it.
RecomputePermutesWitness ==
    /\ choice_names # <<>>
    /\ Len(source_names) = 2
    /\ ~name_le(source_names[1].file.name, source_names[2].file.name)
    /\ source_names[1].manual_choice # None
    /\ source_names[2].manual_choice = None

\* Candidates of equal scores are listed in ascending order of choice index,
\* and the automatic pick is the first of the choices of the highest score.
InsertionOrderTies(source) ==
    /\ \A k \in 1..(Len(source.choice_map) - 1) :
           source.choice_map[k][2] = source.choice_map[k + 1][2] =>
               source.choice_map[k][1] < source.choice_map[k + 1][1]
    /\ (source.manual_choice = None /\ source.choice_map # <<>>) =>
           \A c \in AllChoices :
               ScoreOf(source, c) >= source.choice_map[1][2] =>
                   current_choice(source)[1] <= c

\* C17 as stated: ties follow the order of the choices, for any number of
\* choices.
TiesInInsertionOrder ==
    \A i \in 1..Len(source_names) : InsertionOrderTies(source_names[i])

\* C17 as amended: ties follow the order of the choices while there are at
\* most CHOICE_PREVIEW_COUNT choices, every choice then lying in the slot of
\* its own index.
TiesInInsertionOrderWithinSlots ==
    Len(choice_names) <= CHOICE_PREVIEW_COUNT =>
        \A i \in 1..Len(source_names) : InsertionOrderTies(source_names[i])

\* C17 witness: as many choices as slots, the first of a lower score than
\* two later ones that share the highest score.
TiesInInsertionOrderWithinSlotsWitness ==
    /\ Len(choice_names) = CHOICE_PREVIEW_COUNT
    /\ Len(source_names) = 1
    /\ source_names[1].choice_map[1][2] = source_names[1].choice_map[2][2]
    /\ source_names[1].choice_map[1][1] > 0
    /\ ScoreOf(source_names[1], 0) < source_names[1].choice_map[1][2]

====
